---- MODULE Spec2Model ----
(***************************************************************************)
(* Verification model of the Yap-Snatcher transcription pipeline:          *)
(*   - youtubeDownloader.js   splitAudioIfNeeded (the segmenter)           *)
(*   - transcriber.js         Transcriber.transcribeAudio/transcribeChunks *)
(*   - audioTranscriber.js    AudioTranscriber.transcribeAudioFile,        *)
(*                            transcribeSingleFile, transcribeLargeFile,   *)
(*                            saveTranscription, processAudioFile          *)
(*   - index.js               main (the YouTube command line)              *)
(* Strings are sequences of one-character strings, so that split(' '),     *)
(* slice and join(' ') are computed as the JavaScript computes them.       *)
(***************************************************************************)
EXTENDS Integers, Sequences, FiniteSets, TLC

\* ------------------------------------------------------------------ bounds

\* largest number of entries of an input directory of the model
MaxFiles == 3
\* largest number of chunks an input of the model is split into
MaxChunks == 3
\* largest configured MAX_RETRIES of the model (0 is a legal parseInt result)
MaxRetriesCfg == 3
\* how many words beyond the context window the longest text of the model has
ExtraWords == 1
\* longest duration, in whole seconds, that ffprobe reports in the model
MaxDuration == 120

\* ------------------------------------------------------- program constants

\* config.chunkSize, the default of CHUNK_SIZE
chunkSize == 25000000
\* the context window of transcribeChunks / transcribeLargeFile
contextWords == 100
\* config.retryDelay, the default of RETRY_DELAY, in milliseconds
retryDelay == 1000
\* bits of the significand of a JavaScript number (IEEE 754 binary64), the
\* type of duration, chunkDuration and start in splitAudioIfNeeded
mantissaBits == 53

\* ------------------------------------------------------------------ strings

SP == " "
NL == "\n"

\* the template literal `Previous context: ` as a character sequence
contextLabel ==
    << "P", "r", "e", "v", "i", "o", "u", "s", " ",
       "c", "o", "n", "t", "e", "x", "t", ":", " " >>

RECURSIVE SplitRange(_, _, _, _)
\* the pieces of s[lo .. hi] between the occurrences of c; the halves are
\* split on their own and the pieces that meet in the middle are glued
SplitRange(s, c, lo, hi) ==
    IF lo > hi THEN << << >> >>
    ELSE IF lo = hi
    THEN IF s[lo] = c THEN << << >>, << >> >> ELSE << << s[lo] >> >>
    ELSE LET mid == (lo + hi) \div 2
             l == SplitRange(s, c, lo, mid)
             r == SplitRange(s, c, mid + 1, hi)
         IN  SubSeq(l, 1, Len(l) - 1) \o << l[Len(l)] \o r[1] >>
                 \o SubSeq(r, 2, Len(r))

\* String.prototype.split(c) for a one-character separator: the pieces
\* between the occurrences of c, empty pieces included; "" gives [""]
Split(s, c) == SplitRange(s, c, 1, Len(s))

RECURSIVE JoinRange(_, _, _, _)
\* parts[lo .. hi] with sep between neighbours
JoinRange(parts, sep, lo, hi) ==
    IF lo > hi THEN << >>
    ELSE IF lo = hi THEN parts[lo]
    ELSE LET mid == (lo + hi) \div 2
         IN  JoinRange(parts, sep, lo, mid) \o sep
                 \o JoinRange(parts, sep, mid + 1, hi)

\* Array.prototype.join(sep): the parts with sep between neighbours
Join(parts, sep) == JoinRange(parts, sep, 1, Len(parts))

\* Math.max
Max(a, b) == IF a >= b THEN a ELSE b

\* Array.prototype.slice(from) for 0 <= from
SliceFrom(arr, from) == SubSeq(arr, from + 1, Len(arr))

\* Math.ceil(a / b) for positive integers below 2^53
CeilDiv(a, b) == (a + b - 1) \div b

\* ------------------------------------------------------------------ numbers
\* A number of seconds is held exactly, as a fixed-point numeral to the base
\* Radix: one limb of whole seconds and then FracLimbs limbs of fraction, most
\* significant first.  Every double the splitter computes from a duration of
\* at most MaxDuration seconds and a divisor of at most MaxChunks has its
\* lowest significand bit, and the bit after it that decides the rounding,
\* among the fraction bits.

RECURSIVE BitLength(_)
\* how many bits the natural number k has
BitLength(k) == IF k = 0 THEN 0 ELSE 1 + BitLength(k \div 2)

Radix == 2 ^ 15
LimbBits == BitLength(Radix) - 1
FracLimbs == CeilDiv(mantissaBits + BitLength(MaxChunks), LimbBits)
NumLimbs == 1 + FracLimbs
FracBits == FracLimbs * LimbBits

Zeros(w) == [j \in 1 .. w |-> 0]

\* the number a whole number of seconds k is
FromInt(k) == << k >> \o Zeros(FracLimbs)

RECURSIVE TimesPlusFrom(_, _, _, _)
\* limbs j .. of k * a + b, exactly, and the carry out of them
TimesPlusFrom(k, a, b, j) ==
    IF j > Len(a) THEN [limbs |-> << >>, carry |-> 0]
    ELSE LET rest == TimesPlusFrom(k, a, b, j + 1)
             sum == k * a[j] + b[j] + rest.carry
         IN  [limbs |-> << sum % Radix >> \o rest.limbs,
              carry |-> sum \div Radix]

\* the exact sum a + b
ExactSum(a, b) == TimesPlusFrom(1, a, b, 1).limbs

\* the exact product k * a of a whole number and a number
ExactTimes(k, a) == TimesPlusFrom(k, a, Zeros(Len(a)), 1).limbs

RECURSIVE DivUpTo(_, _, _)
\* limbs 1 .. j of the quotient a / n and the remainder below them
DivUpTo(a, n, j) ==
    IF j = 0 THEN [limbs |-> << >>, rem |-> 0]
    ELSE LET prev == DivUpTo(a, n, j - 1)
             r == prev.rem * Radix + a[j]
         IN  [limbs |-> Append(prev.limbs, r \div n), rem |-> r % n]

\* a <= b
NumLeq(a, b) ==
    \/ a = b
    \/ \E j \in 1 .. Len(a) :
          /\ a[j] < b[j]
          /\ \A k \in 1 .. j - 1 : a[k] = b[k]

\* the limb that holds bit p of a number, bit 0 being the lowest
LimbOf(p) == NumLimbs - (p \div LimbBits)

\* bit p of the number a
BitOf(a, p) == (a[LimbOf(p)] \div 2 ^ (p % LimbBits)) % 2

\* whether a has a bit set below bit p
SetBelow(a, p) ==
    \/ a[LimbOf(p)] % 2 ^ (p % LimbBits) # 0
    \/ \E j \in LimbOf(p) + 1 .. Len(a) : a[j] # 0

\* the double nearest to the exact value a, or to a value just above a when
\* inexact tells that digits were cut off below a; ties go to the even
\* significand (the rounding of every arithmetic operation on numbers)
RoundToDouble(a, inexact) ==
    IF \A j \in 1 .. Len(a) : a[j] = 0 THEN a
    ELSE LET top == CHOOSE j \in 1 .. Len(a) :
                        a[j] # 0 /\ \A k \in 1 .. j - 1 : a[k] = 0
             lead == (NumLimbs - top) * LimbBits + BitLength(a[top]) - 1
             last == lead - (mantissaBits - 1)
         IN  IF last <= 0 THEN a
             ELSE LET unit == 2 ^ (last % LimbBits)
                      kept == [j \in 1 .. Len(a) |->
                                  IF j < LimbOf(last) THEN a[j]
                                  ELSE IF j = LimbOf(last)
                                  THEN (a[j] \div unit) * unit
                                  ELSE 0]
                      ulp == [j \in 1 .. Len(a) |->
                                  IF j = LimbOf(last) THEN unit ELSE 0]
                      sticky == inexact \/ SetBelow(a, last - 1)
                      up == /\ BitOf(a, last - 1) = 1
                            /\ sticky \/ BitOf(a, last) = 1
                  IN  IF up THEN ExactSum(kept, ulp) ELSE kept

\* x / n of two numbers, n a whole number: duration / numChunks
NumDiv(x, n) ==
    LET d == DivUpTo(x, n, Len(x)) IN RoundToDouble(d.limbs, d.rem # 0)

\* k * x of two numbers, k a whole number: i * chunkDuration
NumTimes(k, x) == RoundToDouble(ExactTimes(k, x), FALSE)

\* ------------------------------------------------------------ input domains

\* word k of a generated text: words alternate, so order and offset show
Word(k) == IF k % 2 = 1 THEN << "a" >> ELSE << "b" >>

\* the text of n words separated by sep
WordsText(n, sep) == Join([k \in 1 .. n |-> Word(k)], sep)

\* texts the recognition service answers with in a run: the empty text, two
\* words, and one text longer than the context window
Texts ==
    { << >>, WordsText(2, << SP >>),
      WordsText(contextWords + ExtraWords, << SP >>) }

\* error messages of a failed recognition call
NetErrors == { "timeout", "http500" }

\* error message of a request whose read stream finds no file
FileMissing == "ENOENT"

\* error messages a request can reject with
RequestErrors == NetErrors \cup { FileMissing }

\* byte sizes of the input file: just below the limit, the limit, twice the
\* limit, and one byte above each multiple of the limit that still gives at
\* most MaxChunks chunks
Sizes ==
    { chunkSize - 1, chunkSize, 2 * chunkSize }
        \cup { k * chunkSize + 1 : k \in 1 .. MaxChunks - 1 }

\* options.prompt as a caller of AudioTranscriber may pass it
CallerPrompts == { << >>, << "h", "i", "n", "t" >> }

Segs == 0 .. MaxChunks - 1

\* path.join(chunkDir, `chunk_${i}.mp3`)
ChunkPath(idx) == [kind |-> "chunk", idx |-> idx]
\* the audio file handed to the run
InputPath == [kind |-> "input", idx |-> 0]

NoError == "none"
NoThrow == [kind |-> "none"]
NoTranscription == [kind |-> "none"]
NoPath == [stem |-> "", ext |-> ""]
NoAbort == -1

\* a property the options object does not have
Undefined == "undefined"

\* the options main of index.js and of audioIndex.js pass when no flag is
\* given: language config.defaultLanguage, temperature parseFloat('0')
CliOptions ==
    [language |-> "en", temperature |-> "0", responseFormat |-> "json"]

\* no summary was printed
NoSummary == [successful |-> -1, failed |-> -1]

\* -------------------------------------------------------------------- state

VARIABLES
    variant,        \* "index": main of index.js; "audio": processAudioFile
    maxRetries,     \* config.maxRetries
    inputExists,    \* whether the input audio file is on disk
    inputSize,      \* its size in bytes
    callerPrompt,   \* options.prompt of the caller
    pc,             \* position of the run
    mode,           \* "none", "single" (one whole-file call) or "chunks"
    render,         \* per chunk (1-based): "running", "ended" or "errored"
    completedChunks,\* splitAudioIfNeeded's counter
    audioPaths,     \* what splitAudioIfNeeded resolved with
    i,              \* loop index of transcribeChunks / transcribeLargeFile
    results,        \* its results array
    tpath,          \* audioFilePath of the transcribe call in progress
    prompt,         \* prompt of the transcribe call in progress
    attempt,        \* its loop counter
    lastError,      \* its lastError
    inFlight,       \* recognition requests sent and not yet answered
    transcription,  \* what the transcription step returned
    error,          \* the error the run threw
    disk,           \* output files written: path -> content
    removed,        \* audio files that have been removed
    outputPath,     \* outputPath of saveTranscription
    savedPath,      \* what saveTranscription returned
    requested,      \* history: the segments a request was sent for
    served,         \* history: texts of the successful responses, in order
    lastFailure,    \* history: error of the call's latest failed request
    callAttempts,   \* history: requests the call in progress has sent
    callDelays,     \* history: retry delays the call in progress has started
    callSucceededAt,\* history: attempt number of its success, 0 if none
    callMissing,    \* history: whether its file was missing when it began
    callWaits,      \* history: the delays it has started, in milliseconds
    duration,       \* metadata.format.duration of ffprobe, in whole seconds
    segments,       \* the renders started: start, duration and output path
    runs,           \* two runs alone: per run its variant, position, renders,
                    \* loop index and the origin of each file it transcribed
    chunkDir,       \* two runs alone: per chunk file of the chunk directory
                    \* the run that rendered it, 0 if the file is not there
    clobbered,      \* two runs alone: the overwrites of a file by another run
    calls,          \* history: the segments handed to a call, in order
    runAttempts,    \* history: requests the run has sent, all calls together
    abortRaisedAt,  \* history: the segment in transcription when an abort
                    \* was asked for, NoAbort if none was
    resolved,       \* history: how often the split called resolve(chunkPaths)
    endOrder,       \* history: the renders of the split in progress that have
                    \* ended, in the order of their 'end' events
    inputDir,       \* batch: the entries of the input directory
    audioFiles,     \* batch: the listing of getAudioFilesFromDirectory
    fileIdx,        \* batch: i of the loop of processBatch
    batchResults,   \* batch: results of processBatch
    batchPc,        \* batch: where processBatch is
    batchError,     \* batch: the error processBatch rethrows
    summary,        \* batch: the counts of the printed summary
    callerOptions,  \* the options the caller passes, the prompt apart
    sentOptions,    \* history: language, temperature, format of the requests
    ctxText,        \* context derivation alone: the previous result's text
    ctxHint,        \* context derivation alone: the prompt derived from it
    ctxDone         \* context derivation alone: whether it has been derived

vars ==
    << variant, maxRetries, inputExists, inputSize, callerPrompt, pc, mode,
       render, completedChunks, audioPaths, i, results, tpath, prompt,
       attempt, lastError, inFlight, transcription, error, disk, removed,
       outputPath, savedPath,
       requested, served, lastFailure, callAttempts, callDelays,
       callSucceededAt, callMissing, callWaits, duration, segments, runs,
       chunkDir, clobbered, calls, runAttempts,
       abortRaisedAt,
       resolved, endOrder,
       inputDir, audioFiles, fileIdx, batchResults, batchPc, batchError,
       summary,
       callerOptions, sentOptions,
       ctxText, ctxHint, ctxDone >>

config == << variant, maxRetries, inputExists, inputSize, callerPrompt >>
splitVars == << render, completedChunks, audioPaths >>
loopVars == << i, results >>
callHist ==
    << lastFailure, callAttempts, callDelays, callSucceededAt, callMissing,
       callWaits >>
callVars == << tpath, prompt, attempt, lastError, callHist >>
history == << requested, served >>
ctxVars == << ctxText, ctxHint, ctxDone >>
segVars == << duration, segments >>
runVars == << runs, chunkDir, clobbered >>
optVars == << callerOptions, sentOptions >>
batchVars ==
    << inputDir, audioFiles, fileIdx, batchResults, batchPc, batchError,
       summary >>
splitHist == << resolved, endOrder >>
abortHist == << abortRaisedAt >>
runHist == << calls, runAttempts >>
saveVars == << disk, outputPath, savedPath >>

Init ==
    /\ variant \in { "index", "audio" }
    /\ maxRetries \in 0 .. MaxRetriesCfg
    /\ inputExists \in BOOLEAN
    /\ inputSize \in Sizes
    /\ callerPrompt \in IF variant = "audio" THEN CallerPrompts ELSE { << >> }
    /\ pc = "start"
    /\ mode = "none"
    /\ render = << >>
    /\ completedChunks = 0
    /\ audioPaths = << >>
    /\ i = 0
    /\ results = << >>
    /\ tpath = InputPath
    /\ prompt = << >>
    /\ attempt = 0
    /\ lastError = NoError
    /\ inFlight = { }
    /\ transcription = NoTranscription
    /\ error = NoThrow
    /\ disk = [f \in { } |-> << >>]
    /\ outputPath = NoPath
    /\ savedPath = NoPath
    /\ removed = { }
    /\ requested = { }
    /\ callAttempts = 0
    /\ callDelays = 0
    /\ callSucceededAt = 0
    /\ callMissing = FALSE
    /\ callWaits = << >>
    /\ served = << >>
    /\ lastFailure = NoError
    /\ duration = MaxDuration
    /\ segments = << >>
    /\ runs = << >>
    /\ chunkDir = << >>
    /\ clobbered = { }
    /\ callerOptions = CliOptions
    /\ sentOptions = { }
    /\ inputDir = << >>
    /\ audioFiles = << >>
    /\ fileIdx = 0
    /\ batchResults = << >>
    /\ batchPc = "off"
    /\ batchError = NoError
    /\ summary = NoSummary
    /\ resolved = 0
    /\ endOrder = << >>
    /\ abortRaisedAt = NoAbort
    /\ calls = << >>
    /\ runAttempts = 0
    /\ ctxText = << >>
    /\ ctxHint = << >>
    /\ ctxDone = FALSE

\* ----------------------------------------------------------------- helpers

\* a throw that nothing catches below the run's caller: the run ends with it
\* (main of index.js catches it, prints error.message and exits with 1)
Throw(e) ==
    /\ error' = e
    /\ pc' = "failed"

\* variant of NeedsSplit: the size test written with < for <=
NeedsSplit_AtLimit(size) == ~(size < chunkSize)

\* splitAudioIfNeeded splits unless stats.size <= config.chunkSize
NeedsSplit(size) == ~(size <= chunkSize)

\* transcribeAudioFile takes the large-file path if
\* fileStats.size > config.chunkSize
IsLargeFile(size) == size > chunkSize

\* numChunks of splitAudioIfNeeded
NumChunks(size) == CeilDiv(size, chunkSize)

\* variant of ChunkPaths: each path pushed when its render ends, so that the
\* list is in the order of the 'end' events, the render ending now last
ChunkPaths_AsCompleted(n) ==
    LET ended == { endOrder[j] : j \in DOMAIN endOrder }
        order == endOrder
                    \o SelectSeq([k \in 1 .. n |-> k],
                                 LAMBDA k : k \notin ended)
    IN  [k \in 1 .. n |-> ChunkPath(order[k] - 1)]

\* chunkPaths of splitAudioIfNeeded: pushed in loop order, before any
\* render ends
ChunkPaths(n) == [k \in 1 .. n |-> ChunkPath(k - 1)]

\* variant of SegmentStart: the start taken at the end of the loop body, after
\* the index moved on
SegmentStart_FromOne(idx, chunkDuration) == NumTimes(idx + 1, chunkDuration)

\* start of the loop body: i * chunkDuration
SegmentStart(idx, chunkDuration) == NumTimes(idx, chunkDuration)

\* the renders splitAudioIfNeeded starts for a file of size bytes that lasts
\* dur seconds: setStartTime, setDuration and output of each
Segments(size, dur) ==
    LET numChunks == NumChunks(size)
        chunkDuration == NumDiv(FromInt(dur), numChunks)
    IN  [k \in 1 .. numChunks |->
            [start |-> SegmentStart(k - 1, chunkDuration),
             duration |-> chunkDuration,
             path |-> ChunkPath(k - 1)]]

\* variant of ChunkFailedError: the message names the loop index itself
ChunkFailedError_ZeroBased(idx) == [kind |-> "ChunkFailed", chunk |-> idx]

\* new Error(`Failed to create chunk ${i+1}: ${err.message}`) of the render
\* of loop index idx
ChunkFailedError(idx) == [kind |-> "ChunkFailed", chunk |-> idx + 1]

\* fs.pathExists(p): the input file, or a chunk file its render has written,
\* unless it has been removed
PathExists(p) ==
    /\ p \notin removed
    /\ IF p.kind = "input" THEN inputExists
       ELSE p.idx + 1 \in DOMAIN render /\ render[p.idx + 1] = "ended"

\* variant of InputMissing: transcribeAudioFile without its check
InputMissing_Unchecked(p) == FALSE

\* !await fs.pathExists(audioFilePath) of transcribeAudioFile
InputMissing(p) == ~PathExists(p)

\* the segment index a request is for: chunk_i is segment i, the whole file is 0
SegOf(p) == p.idx

\* the context hint of the loop body: `Previous context: ` and the last 100
\* pieces of the previous text split at single spaces
ContextOf(text) ==
    LET words == Split(text, SP)
        contextWordsJoined ==
            Join(SliceFrom(words, Max(0, Len(words) - contextWords)), << SP >>)
    IN  contextLabel \o contextWordsJoined

\* variant of ChunkPrompt: the options spread after the prompt, so that a
\* prompt of the caller replaces the derived one
ChunkPrompt_CallerWins(res, idx) ==
    IF callerPrompt # << >> THEN callerPrompt
    ELSE IF idx > 0 /\ idx <= Len(res) /\ res[idx].text # << >>
    THEN ContextOf(res[idx].text)
    ELSE << >>

\* prompt of the loop body for index idx (0-based) given the results so far:
\* '' unless idx > 0 and results[idx-1].text is truthy (a non-empty string)
ChunkPrompt(res, idx) ==
    IF idx > 0 /\ idx <= Len(res) /\ res[idx].text # << >>
    THEN ContextOf(res[idx].text)
    ELSE << >>

\* variant of CombineText: join('') for join(' ')
CombineText_NoSeparator(res) ==
    Join([k \in 1 .. Len(res) |-> res[k].text], << >>)

\* results.map(result => result.text).join(' ')
CombineText(res) == Join([k \in 1 .. Len(res) |-> res[k].text], << SP >>)

\* variant of Combined: results without text are filtered out before combining
Combined_DropEmpty(res) ==
    LET kept == SelectSeq(res, LAMBDA r : r.text # << >>)
    IN  [text |-> Join([k \in 1 .. Len(kept) |-> kept[k].text], << SP >>),
         chunks |-> kept]

\* the object the chunk loop returns: { text: combinedText, chunks: results }
Combined(res) == [text |-> CombineText(res), chunks |-> res]

\* variant of SingleResult: the response wrapped as the chunk loop would
SingleResult_AsChunks(t) == Combined(<< [text |-> t] >>)

\* what a whole-file call returns: the response of the service as it is
SingleResult(t) == [text |-> t]

\* variant of NextChunkPath: the chunks taken from the end of the list
NextChunkPath_Reversed(paths, idx) == paths[Len(paths) - idx]

\* chunkPaths[i] / audioPaths[i] of the loop body (0-based i)
NextChunkPath(paths, idx) == paths[idx + 1]

\* variant of LoopContinues: one more pass through the loop
LoopContinues_OneMore(att, n) == att <= n + 1

\* the condition of the retry loop: attempt <= config.maxRetries
LoopContinues(att, n) == att <= n

\* variant of DelayFollows: a delay after every failed attempt, the last too
DelayFollows_AfterEvery(att, n) == att <= n

\* whether a failed attempt is followed by a delay: attempt < config.maxRetries
DelayFollows(att, n) == att < n

\* variant of RetryWait: the delay doubles with every attempt
RetryWait_Doubling(att, e) == retryDelay * 2 ^ (att - 1)

\* the delay the catch block waits after attempt att failed with e:
\* setTimeout(resolve, config.retryDelay)
RetryWait(att, e) == retryDelay

\* lastError as the catch block leaves it after an attempt failed with e
RecordError(prev, e) == e

\* variant of ExhaustedError: the message built from the loop counter, which
\* is maxRetries + 1 once the loop is over
ExhaustedError_LoopCounter(n, last) ==
    IF last = NoError THEN [kind |-> "TypeError"]
    ELSE [kind |-> "TranscribeFailed", attempts |-> n + 1, cause |-> last]

\* the Error thrown after the loop; lastError.message of undefined is a
\* TypeError
ExhaustedError(n, last) ==
    IF last = NoError THEN [kind |-> "TypeError"]
    ELSE [kind |-> "TranscribeFailed", attempts |-> n, cause |-> last]

\* the first statements of a transcribe call: its arguments, attempt = 1
BeginCall(p, pr) ==
    /\ tpath' = p
    /\ prompt' = pr
    /\ attempt' = 1
    /\ lastError' = NoError
    /\ lastFailure' = NoError
    /\ callAttempts' = 0
    /\ callDelays' = 0
    /\ callSucceededAt' = 0
    /\ callMissing' = ~PathExists(p)
    /\ callWaits' = << >>

\* the destructuring at the head of transcribeAudio and
\* transcribeSingleFile, with its defaults
Destructure(o) ==
    [language |-> IF o.language = Undefined THEN "en" ELSE o.language,
     temperature |-> IF o.temperature = Undefined THEN "0"
                     ELSE o.temperature,
     responseFormat |-> IF o.responseFormat = Undefined THEN "json"
                        ELSE o.responseFormat]

\* variant of ChunkOptions: only the first chunk gets the caller's options
ChunkOptions_FirstOnly(o, idx) ==
    IF idx = 0
    THEN o
    ELSE [language |-> Undefined, temperature |-> Undefined,
          responseFormat |-> Undefined]

\* the options a chunk loop hands to the call for chunk idx, the prompt
\* apart: { ...options, prompt }
ChunkOptions(o, idx) ==
    [language |-> o.language, temperature |-> o.temperature,
     responseFormat |-> o.responseFormat]

\* the options of the call in progress
CallOptions ==
    IF mode = "chunks" THEN ChunkOptions(callerOptions, i) ELSE callerOptions

\* the request of an attempt: createReadStream(audioFilePath), the prompt
\* and the destructured options; the stream can be read if the file is
\* there when the request is made
Request(p, pr) ==
    [path |-> p, prompt |-> pr, readable |-> PathExists(p),
     options |-> Destructure(CallOptions)]

\* the request of the call in progress, among the requests reqs
RequestOf(reqs, p) == { r \in reqs : r.path = p }

\* ------------------------------------------------------------------ actions

\* AudioTranscriber.processAudioFile -> transcribeAudioFile: the existence
\* check, the size check and the choice between the two paths
TranscribeAudioFile ==
    /\ variant = "audio"
    /\ pc = "start"
    /\ IF InputMissing(InputPath)
       THEN /\ Throw([kind |-> "AudioFileNotFound"])
            /\ UNCHANGED << mode, callVars, calls >>
       ELSE IF IsLargeFile(inputSize)
       THEN /\ mode' = "chunks"
            /\ pc' = "stat"
            /\ UNCHANGED << error, callVars, calls >>
       ELSE /\ mode' = "single"
            /\ BeginCall(InputPath, callerPrompt)
            /\ calls' = Append(calls, SegOf(InputPath))
            /\ pc' = "loop"
            /\ UNCHANGED error
    /\ UNCHANGED << ctxVars, segVars, runVars, optVars, batchVars, splitHist,
                    abortHist, runAttempts, removed, config, splitVars,
                    loopVars, inFlight, transcription, saveVars, history >>

\* main of index.js up to the call of splitAudioIfNeeded (the download is
\* the media source provider and has delivered the audio path)
MainStart ==
    /\ variant = "index"
    /\ pc = "start"
    /\ pc' = "stat"
    /\ UNCHANGED << ctxVars, segVars, runVars, optVars, batchVars, splitHist,
                    abortHist, runHist, removed, config, mode, splitVars,
                    loopVars, callVars, inFlight, transcription, error,
                    saveVars, history >>

\* splitAudioIfNeeded: fs.stat and the size test
SplitStat ==
    /\ pc = "stat"
    /\ IF ~PathExists(InputPath)
       THEN /\ Throw([kind |-> "StatFailed"])
            /\ UNCHANGED audioPaths
       ELSE IF ~NeedsSplit(inputSize)
       THEN /\ audioPaths' = << InputPath >>
            /\ pc' = "dispatch"
            /\ UNCHANGED error
       ELSE /\ pc' = "probe"
            /\ UNCHANGED << audioPaths, error >>
    /\ UNCHANGED << ctxVars, segVars, runVars, optVars, batchVars, splitHist,
                    abortHist, runHist, removed, config, mode, render,
                    completedChunks, loopVars, callVars, inFlight,
                    transcription, saveVars, history >>

\* the ffprobe callback: an error rejects, otherwise every render is started
Probe ==
    /\ pc = "probe"
    /\ \E ok \in { PathExists(InputPath), FALSE } :
          IF ok
          THEN /\ segments' = Segments(inputSize, duration)
               /\ render' = [k \in 1 .. NumChunks(inputSize) |-> "running"]
               /\ completedChunks' = 0
               /\ pc' = "rendering"
               /\ UNCHANGED error
          ELSE /\ Throw([kind |-> "ProbeFailed"])
               /\ UNCHANGED << segments, render, completedChunks >>
    /\ UNCHANGED << ctxVars, duration, runVars, optVars, batchVars, splitHist,
                    abortHist, runHist, removed, config, mode, audioPaths,
                    loopVars, callVars, inFlight, transcription, saveVars,
                    history >>

\* the process of index.js has exited: no callback runs any more
Exited == variant = "index" /\ pc \in { "failed", "done" }

\* the 'end' handler of render k
RenderEnd(k) ==
    /\ ~Exited
    /\ k \in DOMAIN render
    /\ render[k] = "running"
    /\ render' = [render EXCEPT ![k] = "ended"]
    /\ completedChunks' = completedChunks + 1
    /\ endOrder' = Append(endOrder, k)
    /\ resolved' = IF completedChunks + 1 = Len(render) THEN resolved + 1
                   ELSE resolved
    /\ IF completedChunks + 1 = Len(render) /\ pc = "rendering"
       THEN /\ audioPaths' = ChunkPaths(Len(render))
            /\ pc' = "dispatch"
       ELSE UNCHANGED << audioPaths, pc >>
    /\ UNCHANGED << ctxVars, segVars, runVars, optVars, batchVars, abortHist,
                    runHist, removed, config, mode, loopVars, callVars,
                    inFlight, transcription, error, saveVars, history >>

\* the 'error' handler of render k, the render of loop index k - 1: rejects,
\* which settles a pending promise
RenderError(k) ==
    /\ ~Exited
    /\ k \in DOMAIN render
    /\ render[k] = "running"
    /\ render' = [render EXCEPT ![k] = "errored"]
    /\ IF pc = "rendering"
       THEN Throw(ChunkFailedError(k - 1))
       ELSE UNCHANGED << pc, error >>
    /\ UNCHANGED << ctxVars, segVars, runVars, optVars, batchVars, splitHist,
                    abortHist, runHist, removed, config, mode, completedChunks,
                    audioPaths, loopVars, callVars, inFlight, transcription,
                    saveVars, history >>

\* after splitAudioIfNeeded resolved: main's choice between transcribeAudio
\* and transcribeChunks, or the start of transcribeLargeFile's loop; the
\* split is over and the record of its 'end' events is dropped
Dispatch ==
    /\ pc = "dispatch"
    /\ IF variant = "index" /\ Len(audioPaths) = 1
       THEN /\ mode' = "single"
            /\ tpath' = audioPaths[1]
            /\ prompt' = << >>
            /\ calls' = Append(calls, SegOf(audioPaths[1]))
            /\ pc' = "exists"
            /\ UNCHANGED << loopVars, attempt, lastError, callHist >>
       ELSE /\ mode' = "chunks"
            /\ i' = 0
            /\ results' = << >>
            /\ pc' = "chunk"
            /\ UNCHANGED << callVars, calls >>
    /\ endOrder' = << >>
    /\ UNCHANGED << ctxVars, segVars, runVars, optVars, batchVars, resolved,
                    abortHist, runAttempts, removed, config, splitVars,
                    inFlight, transcription, error, saveVars, history >>

\* variant of ChunkLoop: the head of the loop looks at the abort request
\* first and leaves the run when one was raised
ChunkLoop_ChecksAbort ==
    /\ pc = "chunk"
    /\ IF abortRaisedAt # NoAbort
       THEN /\ Throw([kind |-> "Aborted"])
            /\ UNCHANGED << callVars, calls, transcription >>
       ELSE IF i < Len(audioPaths)
       THEN /\ IF variant = "index"
               THEN /\ tpath' = NextChunkPath(audioPaths, i)
                    /\ prompt' = ChunkPrompt(results, i)
                    /\ pc' = "exists"
                    /\ UNCHANGED << attempt, lastError, callHist >>
               ELSE /\ BeginCall(NextChunkPath(audioPaths, i),
                              ChunkPrompt(results, i))
                    /\ pc' = "loop"
            /\ calls' = Append(calls, SegOf(NextChunkPath(audioPaths, i)))
            /\ UNCHANGED << transcription, error >>
       ELSE /\ transcription' = Combined(results)
            /\ pc' = "save"
            /\ UNCHANGED << callVars, calls, error >>
    /\ UNCHANGED << ctxVars, segVars, runVars, optVars, batchVars, splitHist,
                    abortHist, runAttempts, removed, config, mode, splitVars,
                    loopVars, inFlight, saveVars, history >>

\* one pass through the head of the chunk loop: the next chunk's prompt and
\* call, or after the last chunk the combined result
ChunkLoop ==
    /\ pc = "chunk"
    /\ IF i < Len(audioPaths)
       THEN /\ IF variant = "index"
               THEN /\ tpath' = NextChunkPath(audioPaths, i)
                    /\ prompt' = ChunkPrompt(results, i)
                    /\ pc' = "exists"
                    /\ UNCHANGED << attempt, lastError, callHist >>
               ELSE /\ BeginCall(NextChunkPath(audioPaths, i),
                              ChunkPrompt(results, i))
                    /\ pc' = "loop"
            /\ calls' = Append(calls, SegOf(NextChunkPath(audioPaths, i)))
            /\ UNCHANGED transcription
       ELSE /\ transcription' = Combined(results)
            /\ pc' = "save"
            /\ UNCHANGED << callVars, calls >>
    /\ UNCHANGED << ctxVars, segVars, runVars, optVars, batchVars, splitHist,
                    abortHist, runAttempts, removed, config, mode, splitVars,
                    loopVars, inFlight, error, saveVars, history >>

\* Transcriber.transcribeAudio before its loop: fs.pathExists and readFile
CheckExists ==
    /\ pc = "exists"
    /\ IF PathExists(tpath)
       THEN /\ BeginCall(tpath, prompt)
            /\ pc' = "loop"
            /\ UNCHANGED error
       ELSE /\ Throw([kind |-> "AudioFileNotFound"])
            /\ lastFailure' = NoError
            /\ callAttempts' = 0
            /\ callDelays' = 0
            /\ callSucceededAt' = 0
            /\ callMissing' = TRUE
            /\ callWaits' = << >>
            /\ UNCHANGED << tpath, prompt, attempt, lastError >>
    /\ UNCHANGED << ctxVars, segVars, runVars, optVars, batchVars, splitHist,
                    abortHist, runHist, removed, config, mode, splitVars,
                    loopVars, inFlight, transcription, saveVars, history >>

\* variant of RetryLoop: the chunk loop catches the error of a chunk, keeps
\* an empty result for it and goes on to the next chunk
RetryLoop_SkipFailedChunk ==
    /\ pc = "loop"
    /\ IF attempt <= maxRetries
       THEN /\ inFlight' = inFlight \cup { Request(tpath, prompt) }
            /\ requested' = requested \cup { SegOf(tpath) }
            /\ sentOptions' =
                   sentOptions \cup { Request(tpath, prompt).options }
            /\ callAttempts' = callAttempts + 1
            /\ runAttempts' = runAttempts + 1
            /\ pc' = "await"
            /\ UNCHANGED << error, loopVars >>
       ELSE IF mode = "chunks"
       THEN /\ error' = ExhaustedError(maxRetries, lastError)
            /\ results' = Append(results, [text |-> << >>])
            /\ i' = i + 1
            /\ pc' = "chunk"
            /\ UNCHANGED << inFlight, requested, sentOptions, callAttempts,
                            runAttempts >>
       ELSE /\ Throw(ExhaustedError(maxRetries, lastError))
            /\ UNCHANGED << inFlight, requested, sentOptions, callAttempts,
                            runAttempts, loopVars >>
    /\ UNCHANGED << ctxVars, segVars, runVars, callerOptions, batchVars,
                    splitHist, abortHist, calls, removed, config, mode,
                    splitVars, tpath, prompt, attempt, lastError, lastFailure,
                    callDelays, callSucceededAt, callMissing, callWaits,
                    transcription, saveVars, served >>

\* the head of the retry loop: the next request is sent, or the loop is over
\* and the call throws
RetryLoop ==
    /\ pc = "loop"
    /\ IF LoopContinues(attempt, maxRetries)
       THEN /\ inFlight' = inFlight \cup { Request(tpath, prompt) }
            /\ requested' = requested \cup { SegOf(tpath) }
            /\ sentOptions' =
                   sentOptions \cup { Request(tpath, prompt).options }
            /\ callAttempts' = callAttempts + 1
            /\ runAttempts' = runAttempts + 1
            /\ pc' = "await"
            /\ UNCHANGED error
       ELSE /\ Throw(ExhaustedError(maxRetries, lastError))
            /\ UNCHANGED << inFlight, requested, sentOptions, callAttempts,
                            runAttempts >>
    /\ UNCHANGED << ctxVars, segVars, runVars, callerOptions, batchVars,
                    splitHist, abortHist, calls, removed, config, mode,
                    splitVars, loopVars, tpath, prompt, attempt, lastError,
                    lastFailure, callDelays, callSucceededAt, callMissing,
                    callWaits, transcription, saveVars, served >>

\* variant of AttemptSucceeds: the transcription is kept but the loop is not
\* left, so the next attempt follows
AttemptSucceeds_NoReturn(t) ==
    /\ pc = "await"
    /\ \A r \in RequestOf(inFlight, tpath) : r.readable
    /\ inFlight' = inFlight \ RequestOf(inFlight, tpath)
    /\ served' = Append(served, t)
    /\ callSucceededAt' = attempt
    /\ attempt' = attempt + 1
    /\ pc' = "loop"
    /\ UNCHANGED << ctxVars, segVars, runVars, optVars, batchVars, splitHist,
                    abortHist, runHist, removed, config, mode, splitVars,
                    loopVars, tpath, prompt, lastError, lastFailure,
                    callAttempts, callDelays, callMissing, callWaits,
                    transcription, error, saveVars, requested >>

\* the request resolves with a transcription: the call returns it
AttemptSucceeds(t) ==
    /\ pc = "await"
    /\ \A r \in RequestOf(inFlight, tpath) : r.readable
    /\ inFlight' = inFlight \ RequestOf(inFlight, tpath)
    /\ served' = Append(served, t)
    /\ callSucceededAt' = attempt
    /\ IF mode = "single"
       THEN /\ transcription' = SingleResult(t)
            /\ pc' = "save"
            /\ UNCHANGED loopVars
       ELSE /\ results' = Append(results, [text |-> t])
            /\ i' = i + 1
            /\ pc' = "chunk"
            /\ UNCHANGED transcription
    /\ UNCHANGED << ctxVars, segVars, runVars, optVars, batchVars, splitHist,
                    abortHist, runHist, removed, config, mode, splitVars,
                    tpath, prompt, attempt, lastError, lastFailure,
                    callAttempts, callDelays, callMissing, callWaits, error,
                    saveVars, requested >>

\* the request rejects with e: the catch block
AttemptFails(e) ==
    /\ pc = "await"
    /\ \A r \in RequestOf(inFlight, tpath) : r.readable <=> e \in NetErrors
    /\ inFlight' = inFlight \ RequestOf(inFlight, tpath)
    /\ lastError' = RecordError(lastError, e)
    /\ lastFailure' = e
    /\ IF DelayFollows(attempt, maxRetries)
       THEN /\ callDelays' = callDelays + 1
            /\ callWaits' = Append(callWaits, RetryWait(attempt, e))
            /\ pc' = "delay"
            /\ UNCHANGED attempt
       ELSE /\ attempt' = attempt + 1
            /\ pc' = "loop"
            /\ UNCHANGED << callDelays, callWaits >>
    /\ UNCHANGED << ctxVars, segVars, runVars, optVars, batchVars, splitHist,
                    abortHist, runHist, removed, config, mode, splitVars,
                    loopVars, tpath, prompt, callAttempts, callSucceededAt,
                    callMissing, transcription, error, saveVars, history >>

\* variant of DelayElapsed: the loop goes on without attempt++
DelayElapsed_SameAttempt ==
    /\ pc = "delay"
    /\ pc' = "loop"
    /\ UNCHANGED << ctxVars, segVars, runVars, optVars, batchVars, splitHist,
                    abortHist, runHist, removed, config, mode, splitVars,
                    loopVars, tpath, prompt, attempt, lastError, callHist,
                    inFlight, transcription, error, saveVars, history >>

\* the setTimeout of the catch block fires: attempt++
DelayElapsed ==
    /\ pc = "delay"
    /\ attempt' = attempt + 1
    /\ pc' = "loop"
    /\ UNCHANGED << ctxVars, segVars, runVars, optVars, batchVars, splitHist,
                    abortHist, runHist, removed, config, mode, splitVars,
                    loopVars, tpath, prompt, lastError, callHist, inFlight,
                    transcription, error, saveVars, history >>

\* extensions of the output path: --format txt, --format json, and a path
\* given with -o that has no extension
OutputExts == { "txt", "json", "" }

\* options.output / outputPath
OutputPaths == { [stem |-> "out", ext |-> e] : e \in OutputExts }

\* outputPath.replace(/\.[^.]+$/, '.json'): a path without extension is left
\* as it is
JsonPath(out) == IF out.ext = "" THEN out ELSE [out EXCEPT !.ext = "json"]

\* saveTranscription: the text file and then, when the transcription has
\* chunks, the JSON file
WriteFiles(d, t, out) ==
    LET d1 == (out :> [text |-> t.text]) @@ d
    IN  IF "chunks" \in DOMAIN t
        THEN (JsonPath(out) :> [json |-> t]) @@ d1
        ELSE d1

\* saveTranscription(transcription, outputPath); processAudioFile returns
\* after it, main of index.js goes on to its cleanup
SaveTranscription ==
    /\ pc = "save"
    /\ \E out \in OutputPaths :
          /\ outputPath' = out
          /\ disk' = WriteFiles(disk, transcription, out)
          /\ savedPath' = out
    /\ pc' = IF variant = "index" THEN "cleanup" ELSE "done"
    /\ UNCHANGED << ctxVars, segVars, runVars, optVars, batchVars, splitHist,
                    abortHist, runHist, removed, config, mode, splitVars,
                    loopVars, callVars, inFlight, transcription, error,
                    history >>

\* the set of the elements of a list
Range(seq) == { seq[k] : k \in 1 .. Len(seq) }

\* the end of main: unless --keep-audio, every path of audioPaths is removed
Cleanup ==
    /\ pc = "cleanup"
    /\ \E keepAudio \in BOOLEAN :
          removed' = IF keepAudio THEN removed
                     ELSE removed \cup Range(audioPaths)
    /\ pc' = "done"
    /\ UNCHANGED << ctxVars, segVars, runVars, optVars, batchVars, splitHist,
                    abortHist, runHist, config, mode, splitVars, loopVars,
                    callVars, inFlight, transcription, error, saveVars,
                    history >>

\* the files of the run that are on disk
FilesOnDisk ==
    { p \in { InputPath } \cup { ChunkPath(s) : s \in Segs } : PathExists(p) }

\* p is the file the run reads next: the input up to the probe and during a
\* whole-file call, the chunk of the loop index until its call has returned.
\* A request in flight has opened its stream: a removal then shows at the
\* next read, and is taken there.
StillRead(p) ==
    IF p.kind = "input"
    THEN \/ pc \in { "start", "stat", "probe" }
         \/ mode = "single" /\ pc \in { "exists", "loop", "delay" }
    ELSE /\ pc \in { "rendering", "dispatch", "chunk", "exists", "loop",
                      "delay" }
         /\ p.idx = i

\* another process that uses the same directories removes an audio file of
\* the run, as does the cleanup of a run of index.js; the model takes one
\* such removal per run, of the file the run reads next (the removal of a
\* later chunk shows when the loop comes to it, any other changes nothing)
FileRemoved(p) ==
    /\ pc \notin { "failed", "done" }
    /\ removed = { }
    /\ p \in FilesOnDisk
    /\ StillRead(p)
    /\ removed' = { p }
    /\ UNCHANGED << ctxVars, segVars, runVars, optVars, batchVars, splitHist,
                    abortHist, runHist, config, pc, mode, splitVars, loopVars,
                    callVars, inFlight, transcription, error, saveVars,
                    history >>

Next ==
    \/ \E p \in FilesOnDisk : FileRemoved(p)
    \/ TranscribeAudioFile
    \/ MainStart
    \/ SplitStat
    \/ Probe
    \/ \E k \in 1 .. MaxChunks : RenderEnd(k)
    \/ \E k \in 1 .. MaxChunks : RenderError(k)
    \/ Dispatch
    \/ ChunkLoop
    \/ CheckExists
    \/ RetryLoop
    \/ \E t \in Texts : AttemptSucceeds(t)
    \/ \E e \in RequestErrors : AttemptFails(e)
    \/ DelayElapsed
    \/ SaveTranscription
    \/ Cleanup

Spec == Init /\ [][Next]_vars

\* ------------------------------------------- the context derivation alone

\* separators between the words of a previous text: one space, one line
\* break, two spaces
CtxSeparators == { << SP >>, << NL >>, << SP, SP >> }

\* previous texts of 0 .. contextWords + ExtraWords words
CtxTexts ==
    { WordsText(n, sep) :
        n \in 0 .. contextWords + ExtraWords, sep \in CtxSeparators }

\* a run that stands still, the previous text drawn from CtxTexts
CtxInit ==
    /\ ctxText \in CtxTexts
    /\ ctxHint = << >>
    /\ ctxDone = FALSE
    /\ variant = "audio"
    /\ maxRetries = 0
    /\ inputExists = FALSE
    /\ inputSize = chunkSize
    /\ callerPrompt = << >>
    /\ pc = "context"
    /\ mode = "none"
    /\ render = << >>
    /\ completedChunks = 0
    /\ audioPaths = << >>
    /\ i = 0
    /\ results = << >>
    /\ tpath = InputPath
    /\ prompt = << >>
    /\ attempt = 0
    /\ lastError = NoError
    /\ lastFailure = NoError
    /\ inFlight = { }
    /\ transcription = NoTranscription
    /\ error = NoThrow
    /\ disk = [f \in { } |-> << >>]
    /\ outputPath = NoPath
    /\ savedPath = NoPath
    /\ removed = { }
    /\ requested = { }
    /\ callAttempts = 0
    /\ callDelays = 0
    /\ callSucceededAt = 0
    /\ callMissing = FALSE
    /\ callWaits = << >>
    /\ served = << >>
    /\ duration = MaxDuration
    /\ segments = << >>
    /\ runs = << >>
    /\ chunkDir = << >>
    /\ clobbered = { }
    /\ callerOptions = CliOptions
    /\ sentOptions = { }
    /\ inputDir = << >>
    /\ audioFiles = << >>
    /\ fileIdx = 0
    /\ batchResults = << >>
    /\ batchPc = "off"
    /\ batchError = NoError
    /\ summary = NoSummary
    /\ resolved = 0
    /\ endOrder = << >>
    /\ abortRaisedAt = NoAbort
    /\ calls = << >>
    /\ runAttempts = 0

\* the prompt lines of the loop body for the second chunk, the first chunk's
\* result having the text ctxText
DeriveContext ==
    /\ ~ctxDone
    /\ ctxHint' = ChunkPrompt(<< [text |-> ctxText] >>, 1)
    /\ ctxDone' = TRUE
    /\ UNCHANGED << ctxText, segVars, runVars, optVars, batchVars, splitHist,
                    abortHist, runHist, removed, config, pc, mode, splitVars,
                    loopVars, callVars, inFlight, transcription, error,
                    saveVars, history >>

CtxNext == DeriveContext

SpecContext == CtxInit /\ [][CtxNext]_vars

\* ------------------------------------------------- the segmentation alone

\* durations ffprobe reports: every whole number of seconds up to MaxDuration
Durations == 1 .. MaxDuration

\* sizes of the file handed to splitAudioIfNeeded: those of Sizes and 60 MB
SegSizes == Sizes \cup { 60000000 }

\* a run that only splits, its size drawn from SegSizes and its duration from
\* Durations
SegInit ==
    /\ inputSize \in SegSizes
    /\ duration \in Durations
    /\ segments = << >>
    /\ runs = << >>
    /\ chunkDir = << >>
    /\ clobbered = { }
    /\ callerOptions = CliOptions
    /\ sentOptions = { }
    /\ inputDir = << >>
    /\ audioFiles = << >>
    /\ fileIdx = 0
    /\ batchResults = << >>
    /\ batchPc = "off"
    /\ batchError = NoError
    /\ summary = NoSummary
    /\ resolved = 0
    /\ endOrder = << >>
    /\ abortRaisedAt = NoAbort
    /\ calls = << >>
    /\ runAttempts = 0
    /\ pc = "split"
    /\ variant = "index"
    /\ maxRetries = 0
    /\ inputExists = TRUE
    /\ callerPrompt = << >>
    /\ mode = "none"
    /\ render = << >>
    /\ completedChunks = 0
    /\ audioPaths = << >>
    /\ i = 0
    /\ results = << >>
    /\ tpath = InputPath
    /\ prompt = << >>
    /\ attempt = 0
    /\ lastError = NoError
    /\ lastFailure = NoError
    /\ inFlight = { }
    /\ transcription = NoTranscription
    /\ error = NoThrow
    /\ disk = [f \in { } |-> << >>]
    /\ outputPath = NoPath
    /\ savedPath = NoPath
    /\ removed = { }
    /\ requested = { }
    /\ callAttempts = 0
    /\ callDelays = 0
    /\ callSucceededAt = 0
    /\ callMissing = FALSE
    /\ callWaits = << >>
    /\ served = << >>
    /\ ctxText = << >>
    /\ ctxHint = << >>
    /\ ctxDone = FALSE

\* splitAudioIfNeeded without its renders' outcomes: a small file is returned
\* as it is, a large one gets its renders computed and its paths pushed
SplitSegments ==
    /\ pc = "split"
    /\ IF ~NeedsSplit(inputSize)
       THEN /\ audioPaths' = << InputPath >>
            /\ UNCHANGED segments
       ELSE /\ segments' = Segments(inputSize, duration)
            /\ audioPaths' = ChunkPaths(NumChunks(inputSize))
    /\ pc' = "segmented"
    /\ UNCHANGED << ctxVars, duration, runVars, optVars, batchVars, splitHist,
                    abortHist, runHist, removed, config, mode, render,
                    completedChunks, loopVars, callVars, inFlight,
                    transcription, error, saveVars, history >>

SegNext == SplitSegments

SpecSegments == SegInit /\ [][SegNext]_vars

\* the sizes of Sizes that splitAudioIfNeeded splits
LargeSizes == { size \in Sizes : NeedsSplit(size) }

\* ------------------------------------------- the chunk loop and an abort
\* The chunk loop of a run whose input was split, and a caller who asks for
\* the run to be aborted while a segment is being transcribed.  Neither loop
\* takes an abort request or looks at one.

\* the run right after splitAudioIfNeeded has resolved with the chunk paths
AbortInit ==
    /\ variant \in { "index", "audio" }
    /\ maxRetries \in 0 .. MaxRetriesCfg
    /\ inputExists = TRUE
    /\ inputSize \in LargeSizes
    /\ callerPrompt = << >>
    /\ pc = "dispatch"
    /\ mode = IF variant = "audio" THEN "chunks" ELSE "none"
    /\ render = [k \in 1 .. NumChunks(inputSize) |-> "ended"]
    /\ completedChunks = NumChunks(inputSize)
    /\ audioPaths = ChunkPaths(NumChunks(inputSize))
    /\ duration = MaxDuration
    /\ segments = Segments(inputSize, duration)
    /\ abortRaisedAt = NoAbort
    /\ runs = << >>
    /\ chunkDir = << >>
    /\ clobbered = { }
    /\ callerOptions = CliOptions
    /\ sentOptions = { }
    /\ inputDir = << >>
    /\ audioFiles = << >>
    /\ fileIdx = 0
    /\ batchResults = << >>
    /\ batchPc = "off"
    /\ batchError = NoError
    /\ summary = NoSummary
    /\ resolved = 1
    /\ endOrder = [k \in 1 .. NumChunks(inputSize) |-> k]
    /\ calls = << >>
    /\ runAttempts = 0
    /\ i = 0
    /\ results = << >>
    /\ tpath = InputPath
    /\ prompt = << >>
    /\ attempt = 0
    /\ lastError = NoError
    /\ lastFailure = NoError
    /\ inFlight = { }
    /\ transcription = NoTranscription
    /\ error = NoThrow
    /\ disk = [f \in { } |-> << >>]
    /\ outputPath = NoPath
    /\ savedPath = NoPath
    /\ removed = { }
    /\ requested = { }
    /\ callAttempts = 0
    /\ callDelays = 0
    /\ callSucceededAt = 0
    /\ callMissing = FALSE
    /\ callWaits = << >>
    /\ served = << >>
    /\ ctxText = << >>
    /\ ctxHint = << >>
    /\ ctxDone = FALSE

\* the caller asks for the run to be aborted while the call for segment i is
\* in progress; nothing of the run changes
AbortRequest ==
    /\ mode = "chunks"
    /\ pc \in { "exists", "loop", "await", "delay" }
    /\ abortRaisedAt = NoAbort
    /\ abortRaisedAt' = i
    /\ UNCHANGED << ctxVars, segVars, runVars, optVars, batchVars, splitHist,
                    runHist, removed, config, pc, mode, splitVars, loopVars,
                    callVars, inFlight, transcription, error, saveVars,
                    history >>

AbortNext ==
    \/ AbortRequest
    \/ Dispatch
    \/ ChunkLoop
    \/ CheckExists
    \/ RetryLoop
    \/ \E t \in Texts : AttemptSucceeds(t)
    \/ \E e \in NetErrors : AttemptFails(e)
    \/ DelayElapsed

SpecAbort == AbortInit /\ [][AbortNext]_vars

\* ------------------------------------------ the end of the transcription step
\* The run from the moment its list of segments is fixed, under the
\* scheduling of Node: a continuation that is ready runs, every request
\* settles and every timer fires.

\* the run with its segments: splitAudioIfNeeded has resolved, with the
\* chunk paths or with the input path alone, or processAudioFile is about to
\* send a file below the limit as it is
LiveInit ==
    /\ variant \in { "index", "audio" }
    /\ maxRetries \in 0 .. MaxRetriesCfg
    /\ inputExists = TRUE
    /\ inputSize \in Sizes
    /\ callerPrompt = << >>
    /\ pc = IF variant = "audio" /\ ~IsLargeFile(inputSize)
            THEN "start"
            ELSE "dispatch"
    /\ mode = IF variant = "audio" /\ IsLargeFile(inputSize)
              THEN "chunks"
              ELSE "none"
    /\ render = IF NeedsSplit(inputSize)
                THEN [k \in 1 .. NumChunks(inputSize) |-> "ended"]
                ELSE << >>
    /\ completedChunks = Len(render)
    /\ audioPaths = IF NeedsSplit(inputSize)
                    THEN ChunkPaths(NumChunks(inputSize))
                    ELSE IF variant = "index" THEN << InputPath >> ELSE << >>
    /\ duration = MaxDuration
    /\ segments = IF NeedsSplit(inputSize)
                  THEN Segments(inputSize, duration)
                  ELSE << >>
    /\ abortRaisedAt = NoAbort
    /\ runs = << >>
    /\ chunkDir = << >>
    /\ clobbered = { }
    /\ callerOptions = CliOptions
    /\ sentOptions = { }
    /\ inputDir = << >>
    /\ audioFiles = << >>
    /\ fileIdx = 0
    /\ batchResults = << >>
    /\ batchPc = "off"
    /\ batchError = NoError
    /\ summary = NoSummary
    /\ resolved = IF variant = "index" \/ NeedsSplit(inputSize) THEN 1 ELSE 0
    /\ endOrder = [k \in 1 .. Len(render) |-> k]
    /\ calls = << >>
    /\ runAttempts = 0
    /\ i = 0
    /\ results = << >>
    /\ tpath = InputPath
    /\ prompt = << >>
    /\ attempt = 0
    /\ lastError = NoError
    /\ lastFailure = NoError
    /\ inFlight = { }
    /\ transcription = NoTranscription
    /\ error = NoThrow
    /\ disk = [f \in { } |-> << >>]
    /\ outputPath = NoPath
    /\ savedPath = NoPath
    /\ removed = { }
    /\ requested = { }
    /\ callAttempts = 0
    /\ callDelays = 0
    /\ callSucceededAt = 0
    /\ callMissing = FALSE
    /\ callWaits = << >>
    /\ served = << >>
    /\ ctxText = << >>
    /\ ctxHint = << >>
    /\ ctxDone = FALSE

\* the steps the event loop takes by itself, the head of the chunk loop
\* apart
ProgramStep ==
    \/ TranscribeAudioFile
    \/ Dispatch
    \/ CheckExists
    \/ RetryLoop

\* the promise of transcriptions.create settles
RequestSettles ==
    \/ \E t \in Texts : AttemptSucceeds(t)
    \/ \E e \in NetErrors : AttemptFails(e)

LiveNext ==
    \/ ProgramStep
    \/ ChunkLoop
    \/ RequestSettles
    \/ DelayElapsed

\* weak fairness of ChunkLoop, which is enabled exactly when pc = "chunk"
\* and always leaves it: the head of the chunk loop runs when it is ready
ChunkLoopRuns == <>[](pc = "chunk") => []<><<ChunkLoop>>_vars

SpecLive ==
    /\ LiveInit
    /\ [][LiveNext]_vars
    /\ WF_vars(ProgramStep)
    /\ ChunkLoopRuns
    /\ WF_vars(RequestSettles)
    /\ WF_vars(DelayElapsed)

\* ------------------------------------------------- the options of a run
\* The run with its segments, as above, for a caller who passes no option,
\* the options of the command line, or options of its own.

\* the options objects a caller passes
CallerOptions ==
    { [language |-> Undefined, temperature |-> Undefined,
       responseFormat |-> Undefined],
      CliOptions,
      [language |-> "fr", temperature |-> "0.7", responseFormat |-> "text"] }

OptInit ==
    /\ variant \in { "index", "audio" }
    /\ maxRetries = MaxRetriesCfg
    /\ inputExists = TRUE
    /\ inputSize \in Sizes
    /\ callerPrompt = << >>
    /\ pc = IF variant = "audio" /\ ~IsLargeFile(inputSize)
            THEN "start"
            ELSE "dispatch"
    /\ mode = IF variant = "audio" /\ IsLargeFile(inputSize)
              THEN "chunks"
              ELSE "none"
    /\ render = IF NeedsSplit(inputSize)
                THEN [k \in 1 .. NumChunks(inputSize) |-> "ended"]
                ELSE << >>
    /\ completedChunks = Len(render)
    /\ audioPaths = IF NeedsSplit(inputSize)
                    THEN ChunkPaths(NumChunks(inputSize))
                    ELSE IF variant = "index" THEN << InputPath >> ELSE << >>
    /\ duration = MaxDuration
    /\ segments = IF NeedsSplit(inputSize)
                  THEN Segments(inputSize, duration)
                  ELSE << >>
    /\ abortRaisedAt = NoAbort
    /\ runs = << >>
    /\ chunkDir = << >>
    /\ clobbered = { }
    /\ callerOptions \in CallerOptions
    /\ sentOptions = { }
    /\ inputDir = << >>
    /\ audioFiles = << >>
    /\ fileIdx = 0
    /\ batchResults = << >>
    /\ batchPc = "off"
    /\ batchError = NoError
    /\ summary = NoSummary
    /\ resolved = IF variant = "index" \/ NeedsSplit(inputSize) THEN 1 ELSE 0
    /\ endOrder = [k \in 1 .. Len(render) |-> k]
    /\ calls = << >>
    /\ runAttempts = 0
    /\ i = 0
    /\ results = << >>
    /\ tpath = InputPath
    /\ prompt = << >>
    /\ attempt = 0
    /\ lastError = NoError
    /\ lastFailure = NoError
    /\ inFlight = { }
    /\ transcription = NoTranscription
    /\ error = NoThrow
    /\ disk = [f \in { } |-> << >>]
    /\ outputPath = NoPath
    /\ savedPath = NoPath
    /\ removed = { }
    /\ requested = { }
    /\ callAttempts = 0
    /\ callDelays = 0
    /\ callSucceededAt = 0
    /\ callMissing = FALSE
    /\ callWaits = << >>
    /\ served = << >>
    /\ ctxText = << >>
    /\ ctxHint = << >>
    /\ ctxDone = FALSE

SpecOptions == OptInit /\ [][LiveNext]_vars

\* ------------------------------------------------------------- batch mode
\* processBatch of audioIndex.js: the files of a directory, one after the
\* other.  processAudioFile is taken in one step, by its outcome.

\* AudioProcessor.supportedFormats
SupportedFormats == { ".mp3", ".wav", ".m4a", ".flac", ".aac", ".ogg", ".wma" }

\* path.extname(file).toLowerCase() of the entries of the model
Exts == { ".mp3", ".txt" }

\* an entry of the input directory: its place in the listing for a name, its
\* extension, its size in bytes, and whether it is still there when the
\* loop of processBatch reaches it
DirEntry(k) ==
    { [name |-> k, ext |-> e, size |-> z, present |-> b] :
        e \in Exts, z \in { 0, 1 }, b \in BOOLEAN }

\* what fs.readdir can answer with
Directories ==
    UNION { { d \in [1 .. n -> UNION { DirEntry(k) : k \in 1 .. n }] :
                \A k \in 1 .. n : d[k] \in DirEntry(k) } : n \in 0 .. MaxFiles }

\* AudioProcessor.getAudioFilesFromDirectory: the entries with a supported
\* extension, in the order of readdir
GetAudioFilesFromDirectory(dir) ==
    SelectSeq(dir, LAMBDA f : f.ext \in SupportedFormats)

\* AudioProcessor.validateAudioFile: the message it throws with, or NoError
\* when it returns the file info
ValidateAudioFile(f) ==
    IF ~f.present THEN "File does not exist"
    ELSE IF f.ext \notin SupportedFormats THEN "Unsupported audio format"
    ELSE IF f.size = 0 THEN "Audio file is empty"
    ELSE NoError

\* what processAudioFile throws with: transcribeAudioFile found no file,
\* the transcription failed, or saveTranscription failed
ProcessErrors == { "Audio file not found", "Failed to transcribe", "EACCES" }

\* a step of processBatch leaves the single run alone
BatchFrame ==
    UNCHANGED << ctxVars, segVars, runVars, optVars, optVars, splitHist,
                 abortHist, runHist, removed, config, pc, mode, splitVars,
                 loopVars, callVars, inFlight, transcription, error, saveVars,
                 history >>

\* the state when main calls processBatch
BatchInit ==
    /\ variant = "audio"
    /\ maxRetries = MaxRetriesCfg
    /\ inputExists = TRUE
    /\ inputSize = chunkSize
    /\ callerPrompt = << >>
    /\ pc = "start"
    /\ mode = "none"
    /\ render = << >>
    /\ completedChunks = 0
    /\ audioPaths = << >>
    /\ i = 0
    /\ results = << >>
    /\ tpath = InputPath
    /\ prompt = << >>
    /\ attempt = 0
    /\ lastError = NoError
    /\ inFlight = { }
    /\ transcription = NoTranscription
    /\ error = NoThrow
    /\ disk = [f \in { } |-> << >>]
    /\ outputPath = NoPath
    /\ savedPath = NoPath
    /\ removed = { }
    /\ requested = { }
    /\ callAttempts = 0
    /\ callDelays = 0
    /\ callSucceededAt = 0
    /\ callMissing = FALSE
    /\ callWaits = << >>
    /\ served = << >>
    /\ lastFailure = NoError
    /\ duration = MaxDuration
    /\ segments = << >>
    /\ runs = << >>
    /\ chunkDir = << >>
    /\ clobbered = { }
    /\ callerOptions = CliOptions
    /\ sentOptions = { }
    /\ inputDir \in Directories
    /\ audioFiles = << >>
    /\ fileIdx = 0
    /\ batchResults = << >>
    /\ batchPc = "list"
    /\ batchError = NoError
    /\ summary = NoSummary
    /\ resolved = 0
    /\ endOrder = << >>
    /\ abortRaisedAt = NoAbort
    /\ calls = << >>
    /\ runAttempts = 0
    /\ ctxText = << >>
    /\ ctxHint = << >>
    /\ ctxDone = FALSE

\* processBatch up to its loop: the listing, and the return when it is empty
BatchList ==
    /\ batchPc = "list"
    /\ audioFiles' = GetAudioFilesFromDirectory(inputDir)
    /\ batchPc' = IF Len(audioFiles') = 0 THEN "done" ELSE "loop"
    /\ UNCHANGED << inputDir, fileIdx, batchResults, batchError, summary >>
    /\ BatchFrame

\* the head of one pass of the loop: validateAudioFile, outside the try of
\* the pass; its throw goes to the catch of processBatch, which rethrows
BatchValidate ==
    /\ batchPc = "loop"
    /\ fileIdx < Len(audioFiles)
    /\ LET v == ValidateAudioFile(audioFiles[fileIdx + 1])
       IN  IF v # NoError
           THEN /\ batchError' = v
                /\ batchPc' = "failed"
           ELSE /\ batchPc' = "process"
                /\ UNCHANGED batchError
    /\ UNCHANGED << inputDir, audioFiles, fileIdx, batchResults, summary >>
    /\ BatchFrame

\* the try of one pass: processAudioFile resolves with the saved path or
\* throws; either way results gets an entry and the loop goes on
BatchProcess(e) ==
    /\ batchPc = "process"
    /\ batchResults' = Append(batchResults,
                              [input |-> audioFiles[fileIdx + 1].name,
                               success |-> e = NoError,
                               error |-> e])
    /\ fileIdx' = fileIdx + 1
    /\ batchPc' = "loop"
    /\ UNCHANGED << inputDir, audioFiles, batchError, summary >>
    /\ BatchFrame

\* after the loop: the summary
BatchSummary ==
    /\ batchPc = "loop"
    /\ fileIdx >= Len(audioFiles)
    /\ summary' =
           [successful |->
                Len(SelectSeq(batchResults, LAMBDA r : r.success)),
            failed |-> Len(SelectSeq(batchResults, LAMBDA r : ~r.success))]
    /\ batchPc' = "done"
    /\ UNCHANGED << inputDir, audioFiles, fileIdx, batchResults, batchError >>
    /\ BatchFrame

BatchNext ==
    \/ BatchList
    \/ BatchValidate
    \/ \E e \in { NoError } \cup ProcessErrors : BatchProcess(e)
    \/ BatchSummary

SpecBatch == BatchInit /\ [][BatchNext]_vars

\* ------------------------------------------------------ two runs at a time
\* Two runs, each a process of index.js or a processAudioFile, work at the
\* same time with the same config.tempDir on inputs above chunkSize.  The
\* retry loop of a call has only local variables and is taken in one step.

Runs == { 1, 2 }

\* the run that is not r
OtherRun(r) == CHOOSE o \in Runs : o # r

RunsInit ==
    /\ runs \in [Runs -> { [variant |-> v, chunks |-> NumChunks(size),
                            pc |-> "start", render |-> << >>, i |-> 0,
                            sent |-> << >>] :
                              v \in { "index", "audio" },
                              size \in LargeSizes }]
    /\ chunkDir = [s \in Segs |-> 0]
    /\ clobbered = { }
    /\ callerOptions = CliOptions
    /\ sentOptions = { }
    /\ inputDir = << >>
    /\ audioFiles = << >>
    /\ fileIdx = 0
    /\ batchResults = << >>
    /\ batchPc = "off"
    /\ batchError = NoError
    /\ summary = NoSummary
    /\ resolved = 0
    /\ endOrder = << >>
    /\ abortRaisedAt = NoAbort
    /\ calls = << >>
    /\ runAttempts = 0
    /\ pc = "runs"
    /\ variant = "audio"
    /\ maxRetries = 0
    /\ inputExists = TRUE
    /\ inputSize = chunkSize
    /\ callerPrompt = << >>
    /\ mode = "none"
    /\ render = << >>
    /\ completedChunks = 0
    /\ audioPaths = << >>
    /\ i = 0
    /\ results = << >>
    /\ tpath = InputPath
    /\ prompt = << >>
    /\ attempt = 0
    /\ lastError = NoError
    /\ lastFailure = NoError
    /\ inFlight = { }
    /\ transcription = NoTranscription
    /\ error = NoThrow
    /\ disk = [f \in { } |-> << >>]
    /\ outputPath = NoPath
    /\ savedPath = NoPath
    /\ removed = { }
    /\ requested = { }
    /\ callAttempts = 0
    /\ callDelays = 0
    /\ callSucceededAt = 0
    /\ callMissing = FALSE
    /\ callWaits = << >>
    /\ served = << >>
    /\ duration = MaxDuration
    /\ segments = << >>
    /\ ctxText = << >>
    /\ ctxHint = << >>
    /\ ctxDone = FALSE

\* what the runs leave alone
RunsFrame ==
    UNCHANGED << ctxVars, segVars, optVars, batchVars, splitHist, abortHist,
                 runHist, removed, config, pc, mode, splitVars, loopVars,
                 callVars, inFlight, transcription, error, saveVars, history >>

\* the process of run r has exited: no callback of it runs any more
RunExited(r) ==
    runs[r].variant = "index" /\ runs[r].pc \in { "failed", "done" }

\* splitAudioIfNeeded of run r up to the start of its renders, each with the
\* output path.join(chunkDir, `chunk_${i}.mp3`)
RunSplit(r) ==
    /\ runs[r].pc = "start"
    /\ runs' = [runs EXCEPT
                   ![r].render = [k \in 1 .. runs[r].chunks |-> "running"],
                   ![r].pc = "rendering"]
    /\ UNCHANGED << chunkDir, clobbered >>
    /\ RunsFrame

\* the 'end' handler of render k of run r: its output file is written, over
\* whatever file has that path
RunRenderEnd(r, k) ==
    /\ ~RunExited(r)
    /\ k \in DOMAIN runs[r].render
    /\ runs[r].render[k] = "running"
    /\ chunkDir' = [chunkDir EXCEPT ![k - 1] = r]
    /\ clobbered' =
          IF chunkDir[k - 1] = OtherRun(r)
          THEN clobbered \cup { [seg |-> k - 1, by |-> r] }
          ELSE clobbered
    /\ LET rendered == [runs[r].render EXCEPT ![k] = "ended"]
       IN  runs' = [runs EXCEPT
                      ![r].render = rendered,
                      ![r].pc =
                          IF /\ runs[r].pc = "rendering"
                             /\ \A j \in DOMAIN rendered :
                                   rendered[j] = "ended"
                          THEN "chunk"
                          ELSE runs[r].pc]
    /\ RunsFrame

\* the 'error' handler of render k of run r: rejects
RunRenderError(r, k) ==
    /\ ~RunExited(r)
    /\ k \in DOMAIN runs[r].render
    /\ runs[r].render[k] = "running"
    /\ runs' = [runs EXCEPT
                   ![r].render[k] = "errored",
                   ![r].pc = IF runs[r].pc = "rendering" THEN "failed"
                             ELSE runs[r].pc]
    /\ UNCHANGED << chunkDir, clobbered >>
    /\ RunsFrame

\* one pass of the chunk loop of run r: the call for chunk i, which reads
\* the file that has the path of chunk i now and either returns a result or
\* throws; after the last chunk the transcription is saved
RunChunk(r) ==
    /\ runs[r].pc = "chunk"
    /\ IF runs[r].i < runs[r].chunks
       THEN \E ok \in { chunkDir[runs[r].i] # 0, FALSE } :
               runs' = [runs EXCEPT
                          ![r].sent =
                              IF chunkDir[runs[r].i] # 0
                              THEN Append(runs[r].sent, chunkDir[runs[r].i])
                              ELSE runs[r].sent,
                          ![r].i = IF ok THEN runs[r].i + 1 ELSE runs[r].i,
                          ![r].pc = IF ok THEN "chunk" ELSE "failed"]
       ELSE runs' = [runs EXCEPT
                       ![r].pc = IF runs[r].variant = "index"
                                 THEN "cleanup" ELSE "done"]
    /\ UNCHANGED << chunkDir, clobbered >>
    /\ RunsFrame

\* the end of main of run r: unless --keep-audio, the files at the paths
\* of its chunks are removed
RunCleanup(r) ==
    /\ runs[r].pc = "cleanup"
    /\ \E keepAudio \in BOOLEAN :
          chunkDir' = IF keepAudio THEN chunkDir
                      ELSE [s \in Segs |->
                               IF s < runs[r].chunks THEN 0 ELSE chunkDir[s]]
    /\ runs' = [runs EXCEPT ![r].pc = "done"]
    /\ UNCHANGED clobbered
    /\ RunsFrame

RunsNext ==
    \E r \in Runs :
        \/ RunSplit(r)
        \/ \E k \in 1 .. MaxChunks : RunRenderEnd(r, k)
        \/ \E k \in 1 .. MaxChunks : RunRenderError(r, k)
        \/ RunChunk(r)
        \/ RunCleanup(r)

SpecRuns == RunsInit /\ [][RunsNext]_vars

\* ------------------------------------------------------------- properties

\* the chunk whose transcribe call the run is in or ended in
CurrentSeg == SegOf(tpath)

\* the run ended because a transcribe call threw after its retry loop
CallExhausted == error.kind \in { "TranscribeFailed", "TypeError" }

\* C1: with maxRetries N >= 1, a transcribe call whose every request fails
\* sends exactly N requests, starts exactly N - 1 delays (none after the last
\* request) and throws an error holding N and the last failure observed; no
\* call ever sends more than N requests or starts more than N - 1 delays.
C1_RetryExhaustion ==
    /\ callAttempts <= maxRetries
    /\ callDelays <= Max(0, maxRetries - 1)
    /\ error.kind = "TranscribeFailed" =>
          /\ maxRetries >= 1
          /\ callSucceededAt = 0
          /\ callAttempts = maxRetries
          /\ callDelays = maxRetries - 1
          /\ error.attempts = maxRetries
          /\ error.cause = lastFailure

\* C1 witness: maxRetries = 3, three failed requests, two delays, the throw
C1_Witness ==
    /\ maxRetries = 3
    /\ error.kind = "TranscribeFailed"
    /\ callAttempts = 3
    /\ callDelays = 2

\* C2: once a request of a call has succeeded at attempt a, the call has
\* returned that response: the call has sent exactly a requests and started
\* a - 1 delays and sends and starts no more, the run has left the retry loop,
\* and the result kept for each segment is the text of its response.
C2_SuccessShortCircuits ==
    /\ callSucceededAt > 0 =>
          /\ callSucceededAt <= maxRetries
          /\ callAttempts = callSucceededAt
          /\ callDelays = callSucceededAt - 1
          /\ pc \notin { "loop", "await", "delay" }
    /\ mode = "single" /\ served # << >> =>
          /\ Len(served) = 1
          /\ transcription = [text |-> served[1]]
    /\ mode = "chunks" =>
          /\ Len(results) = Len(served)
          /\ \A k \in 1 .. Len(served) : results[k] = [text |-> served[k]]

\* C2 witness: maxRetries = 3 and the second chunk's call succeeded at its
\* third and last attempt, after two delays
C2_Witness ==
    /\ maxRetries = 3
    /\ mode = "chunks"
    /\ callSucceededAt = 3
    /\ callDelays = 2
    /\ Len(results) = 2

\* C3: at most one recognition request is in flight, it is for the chunk right
\* after the results obtained so far, and a chunk has had a request only if
\* every chunk before it has returned its result.
C3_OneAtATimeInOrder ==
    /\ Cardinality(inFlight) <= 1
    /\ mode = "chunks" =>
          /\ \A r \in inFlight : SegOf(r.path) = Len(results)
          /\ \A s \in requested : s <= Len(results)
          /\ \A s \in 0 .. Len(results) - 1 : s \in requested

\* C3 witness: the request for the third chunk is in flight
C3_Witness ==
    /\ mode = "chunks"
    /\ \E r \in inFlight : SegOf(r.path) = 2 /\ Len(results) = 2

\* the hint the claims describe for a previous text, written out on its own:
\* the label, then the last min(100, n) of the n pieces of the text between
\* single spaces, with single spaces between them
HintOfPieces(text) ==
    LET pieces == Split(text, SP)
        n == Len(pieces)
        keep == IF n > contextWords THEN contextWords ELSE n
    IN  contextLabel \o Join(SubSeq(pieces, n - keep + 1, n), << SP >>)

\* C4 as stated: in a multi-chunk run the request for chunk 0 carries the
\* empty prompt and the request for chunk i > 0 carries the hint of chunk
\* i - 1's text, whatever that text is.
C4_HintForEveryText ==
    mode = "chunks" =>
        \A r \in inFlight :
            r.prompt =
                IF SegOf(r.path) = 0 THEN << >>
                ELSE HintOfPieces(results[SegOf(r.path)].text)

\* C4 as amended: the request for chunk i > 0 carries the hint of chunk
\* i - 1's text when that text is not empty and the empty prompt when it is
\* empty; the request for chunk 0 carries the empty prompt; the prompt of the
\* caller is in no request of a multi-chunk run.
C4_HintForNonEmptyText ==
    mode = "chunks" =>
        \A r \in inFlight :
            r.prompt =
                IF SegOf(r.path) > 0 /\ results[SegOf(r.path)].text # << >>
                THEN HintOfPieces(results[SegOf(r.path)].text)
                ELSE << >>

\* C4 witness: the caller passed a prompt, the second chunk's text is longer
\* than the context window, and the third chunk's request carries its hint
C4_Witness ==
    /\ mode = "chunks"
    /\ callerPrompt # << >>
    /\ \E r \in inFlight :
          /\ SegOf(r.path) = 2
          /\ Len(Split(results[2].text, SP)) > contextWords
          /\ r.prompt = HintOfPieces(results[2].text)
          /\ r.prompt # HintOfPieces(results[1].text)

\* whitespace characters of a text
Whitespace == { SP, NL, "\t" }

\* the whitespace-delimited tokens of a text
WhitespaceTokens(text) ==
    LET spaced == [k \in 1 .. Len(text) |->
                      IF text[k] \in Whitespace THEN SP ELSE text[k]]
    IN  SelectSeq(Split(spaced, SP), LAMBDA piece : piece # << >>)

\* the hint of claim C5 for a previous text: the label, then all its
\* whitespace-delimited tokens if they are at most 100 and else the last 100,
\* with single spaces between them
HintOfTokens(text) ==
    LET tokens == WhitespaceTokens(text)
        n == Len(tokens)
        keep == IF n > contextWords THEN contextWords ELSE n
    IN  contextLabel \o Join(SubSeq(tokens, n - keep + 1, n), << SP >>)

\* C5: the hint derived from a non-empty previous text is the label followed
\* by all its whitespace-delimited tokens when they are at most 100 and by
\* exactly the last 100 otherwise, in order and joined by single spaces, so
\* that the hint holds at most 100 words.
C5_HintIsLastHundredTokens ==
    (ctxDone /\ ctxText # << >>) =>
        /\ ctxHint = HintOfTokens(ctxText)
        /\ Len(WhitespaceTokens(
               SubSeq(ctxHint, Len(contextLabel) + 1, Len(ctxHint))))
             <= contextWords

\* C6: when every chunk was transcribed, the text of the transcription is the
\* texts of the successful responses in chunk order with one space between
\* neighbours; for a single whole-file call it is the text of the response.
C6_CombinedTextIsSpaceJoin ==
    pc \in { "save", "cleanup", "done" } =>
        IF mode = "chunks"
        THEN /\ Len(served) = Len(audioPaths)
             /\ transcription.text = Join(served, << SP >>)
        ELSE /\ Len(served) = 1
             /\ transcription.text = served[1]

\* C6 witness: a finished run of three chunks whose texts differ, one of them
\* empty
C6_Witness ==
    /\ pc = "done"
    /\ Len(served) = 3
    /\ served[1] # served[2]
    /\ served[2] # served[3]
    /\ served[3] = << >>

\* C7: a combined transcription holds one result per chunk of the input, in
\* chunk order, each the response obtained for that chunk, and its text is
\* what combining its own list of results gives.
C7_OneResultPerSegment ==
    "chunks" \in DOMAIN transcription =>
        /\ Len(transcription.chunks) = NumChunks(inputSize)
        /\ Len(transcription.chunks) = Len(audioPaths)
        /\ \A k \in 1 .. Len(transcription.chunks) :
              transcription.chunks[k] = [text |-> served[k]]
        /\ transcription.text = CombineText(transcription.chunks)

\* C7 witness: a combined transcription of three results, the second one with
\* an empty text
C7_Witness ==
    /\ "chunks" \in DOMAIN transcription
    /\ Len(transcription.chunks) = 3
    /\ transcription.chunks[2].text = << >>
    /\ transcription.chunks[1].text # << >>

\* C8: when the transcribe call of chunk k has thrown after its retry loop,
\* the run has failed: no request is sent for any chunk after k, nothing is in
\* flight, no transcription is returned and no output file is written.
C8_FailedRunEmitsNothing ==
    CallExhausted =>
        /\ pc = "failed"
        /\ \A s \in requested : s <= CurrentSeg
        /\ inFlight = { }
        /\ transcription = NoTranscription
        /\ DOMAIN disk = { }

\* C8 witness: three chunks, the first transcribed, the second out of retries
C8_Witness ==
    /\ error.kind = "TranscribeFailed"
    /\ mode = "chunks"
    /\ Len(audioPaths) = 3
    /\ CurrentSeg = 1
    /\ Len(results) = 1
    /\ requested = { 0, 1 }
    /\ callAttempts = maxRetries

\* C9 as stated: the error of a run that failed on chunk k's exhausted retries
\* carries the index k.
C9_ErrorCarriesSegmentIndex ==
    error.kind = "TranscribeFailed" =>
        /\ "segment" \in DOMAIN error
        /\ error.segment = CurrentSeg

\* C9 as amended: the error of a run that failed on chunk k's exhausted
\* retries is the error of the transcribe call as thrown: it holds the attempt
\* count maxRetries and the message of the last failed request of chunk k,
\* and nothing else; in particular no chunk index.
C9_ErrorCarriesCauseOnly ==
    error.kind = "TranscribeFailed" =>
        /\ pc = "failed"
        /\ DOMAIN error = { "kind", "attempts", "cause" }
        /\ error.attempts = maxRetries
        /\ error.cause \in RequestErrors
        /\ error.cause = lastFailure

\* C9 witness: the run failed on its third chunk
C9_Witness ==
    /\ error.kind = "TranscribeFailed"
    /\ mode = "chunks"
    /\ CurrentSeg = 2
    /\ Len(results) = 2

\* C10: for an input of at most chunkSize bytes nothing is probed or rendered
\* and the only path ever handed on or requested is the input file itself;
\* if its first request succeeds the run sends exactly one request and the
\* transcription, and the text file written, hold that response's text.
C10_SmallFileSingleCall ==
    inputSize <= chunkSize =>
        /\ render = << >>
        /\ pc \notin { "probe", "rendering" }
        /\ error.kind \notin { "ProbeFailed", "ChunkFailed" }
        /\ audioPaths \in { << >>, << InputPath >> }
        /\ pc = "dispatch" => audioPaths = << InputPath >>
        /\ \A r \in inFlight : r.path = InputPath
        /\ callSucceededAt = 1 =>
              /\ callAttempts = 1
              /\ requested = { 0 }
              /\ transcription = [text |-> served[1]]
              /\ pc = "done" =>
                    /\ Cardinality(DOMAIN disk) = 1
                    /\ \A out \in DOMAIN disk :
                          disk[out] = [text |-> served[1]]

\* C10 witness: an input of exactly chunkSize bytes went through
\* splitAudioIfNeeded unsplit and was transcribed with one request
C10_Witness ==
    /\ inputSize = chunkSize
    /\ variant = "index"
    /\ pc = "done"
    /\ audioPaths = << InputPath >>
    /\ callAttempts = 1
    /\ transcription.text # << >>

\* 2^-52, the gap between 1 and the next double
Epsilon ==
    [j \in 1 .. NumLimbs |->
        IF j = NumLimbs THEN 2 ^ (FracBits - (mantissaBits - 1)) ELSE 0]

\* a and b differ by at most dur * 2^-52
Near(a, b, dur) ==
    LET tolerance == ExactTimes(dur, Epsilon)
    IN  /\ NumLeq(a, ExactSum(b, tolerance))
        /\ NumLeq(b, ExactSum(a, tolerance))

\* where segment k (1-based in the list) ends: its start plus its duration,
\* exactly
SegmentEnd(k) == ExactSum(segments[k].start, segments[k].duration)

\* where the segment after segment k starts, the end of the audio after the
\* last one
NextStart(k) ==
    IF k < Len(segments) THEN segments[k + 1].start ELSE FromInt(duration)

\* C11 as stated: a file above the limit is split into ceil(S/L) >= 2
\* segments, segment i starting at i*D/ceil(S/L) with duration D/ceil(S/L),
\* each ending exactly where the next starts and the last exactly at D.
C11_SegmentsCoverExactly ==
    (pc = "segmented" /\ inputSize > chunkSize) =>
        LET n == CeilDiv(inputSize, chunkSize)
        IN  /\ Len(segments) = n
            /\ n >= 2
            /\ \A k \in 1 .. Len(segments) :
                  /\ ExactTimes(n, segments[k].start)
                        = ExactTimes(k - 1, FromInt(duration))
                  /\ ExactTimes(n, segments[k].duration) = FromInt(duration)
                  /\ SegmentEnd(k) = NextStart(k)

\* C11 as amended: a file above the limit is split into ceil(S/L) >= 2
\* segments with the paths chunk_0 .. in order; the first starts at 0, all
\* have the same duration, which is D/ceil(S/L) up to rounding, the starts
\* increase, and each segment ends where the next starts, the last at D, up
\* to rounding: the two differ by at most D * 2^-52.  When ceil(S/L) divides
\* D they are equal.
C11_SegmentsCoverWithinRounding ==
    (pc = "segmented" /\ inputSize > chunkSize) =>
        LET n == CeilDiv(inputSize, chunkSize)
        IN  /\ Len(segments) = n
            /\ n >= 2
            /\ segments[1].start = FromInt(0)
            /\ \A k \in 1 .. Len(segments) :
                  /\ segments[k].path = ChunkPath(k - 1)
                  /\ segments[k].duration = segments[1].duration
                  /\ Near(ExactTimes(n, segments[k].duration),
                          FromInt(duration), duration)
                  /\ Near(SegmentEnd(k), NextStart(k), duration)
                  /\ k > 1 =>
                        /\ NumLeq(segments[k - 1].start, segments[k].start)
                        /\ segments[k - 1].start # segments[k].start
                  /\ duration % n = 0 =>
                        /\ segments[k].start
                              = FromInt((k - 1) * (duration \div n))
                        /\ segments[k].duration = FromInt(duration \div n)
                        /\ SegmentEnd(k) = NextStart(k)

\* C11 witness: 60 MB and 120 s give three segments of 40 s, starting at 0,
\* 40 and 80
C11_Witness ==
    /\ pc = "segmented"
    /\ inputSize = 60000000
    /\ duration = 120
    /\ Len(segments) = 3
    /\ \A k \in 1 .. 3 :
          /\ segments[k].start = FromInt(40 * (k - 1))
          /\ segments[k].duration = FromInt(40)

\* the render of segment s (chunk_s, loop index s) has failed
RenderFailed(s) == s + 1 \in DOMAIN render /\ render[s + 1] = "errored"

\* the run was rejected by the 'error' handler of a render
RenderRejected == error.kind = "ChunkFailed"

\* what holds of every run a failed render has rejected: it has ended, no
\* list of segments was handed on, no request was sent for any segment,
\* nothing was returned and nothing written
AbortedInSegmentation ==
    /\ pc = "failed"
    /\ audioPaths = << >>
    /\ requested = { }
    /\ inFlight = { }
    /\ served = << >>
    /\ transcription = NoTranscription
    /\ DOMAIN disk = { }

\* C12 as stated: a run that a failed render has rejected is aborted, the
\* segmenter hands on a list of segments only if no render failed, and the
\* number the error reports is the index k of a segment whose render failed.
C12_RenderErrorReportsIndex ==
    /\ RenderRejected => AbortedInSegmentation /\ RenderFailed(error.chunk)
    /\ audioPaths # << >> => \A s \in Segs : ~RenderFailed(s)

\* C12 as amended: a run that a failed render has rejected is aborted, the
\* segmenter hands on a list of segments only if no render failed, and the
\* number the error reports is k + 1 for the index k of a segment whose
\* render failed (segment chunk_2 fails, the error says chunk 3).
C12_RenderErrorReportsOrdinal ==
    /\ RenderRejected =>
          AbortedInSegmentation /\ RenderFailed(error.chunk - 1)
    /\ audioPaths # << >> => \A s \in Segs : ~RenderFailed(s)

\* C12 witness: of three renders the first has ended and the third, of
\* segment 2, has failed; the error reports 3
C12_Witness ==
    /\ RenderRejected
    /\ Len(render) = 3
    /\ render[1] = "ended"
    /\ RenderFailed(2)
    /\ ~RenderFailed(1)
    /\ error.chunk = 3

\* C13: a transcribe call whose file is missing when the call begins, for the
\* whole file or for a chunk, in Transcriber and in AudioTranscriber, ends
\* the run with the file-not-found error, no request sent and no delay
\* started.
C13_MissingFileFailsFast ==
    callMissing =>
        /\ pc = "failed"
        /\ error.kind = "AudioFileNotFound"
        /\ callAttempts = 0
        /\ callDelays = 0

\* C14: when the input file of transcribeAudioFile is missing entirely, the
\* call throws the file-not-found error at once: the size is not looked at,
\* nothing is probed, rendered or handed on as a segment, no request is
\* sent, nothing is returned and no output file is written.
C14_MissingInputFailsAtOnce ==
    (variant = "audio" /\ ~inputExists /\ pc # "start") =>
        /\ pc = "failed"
        /\ error.kind = "AudioFileNotFound"
        /\ mode = "none"
        /\ render = << >>
        /\ segments = << >>
        /\ audioPaths = << >>
        /\ requested = { }
        /\ inFlight = { }
        /\ callAttempts = 0
        /\ transcription = NoTranscription
        /\ DOMAIN disk = { }

\* C14 witness: processAudioFile has failed on a missing input whose size
\* would have been above the limit
C14_Witness ==
    /\ variant = "audio"
    /\ ~inputExists
    /\ inputSize > chunkSize
    /\ pc = "failed"
    /\ error.kind = "AudioFileNotFound"

\* what the general path makes of one segment whose response has the text t:
\* the chunk loop's result for a list of one element
GeneralResult(t) == Combined(<< [text |-> t] >>)

\* the prompt the general path sends for its first segment
GeneralFirstPrompt == ChunkPrompt(<< >>, 0)

\* the run took the whole-file path and has its transcription
SingleOutcome == mode = "single" /\ pc \in { "save", "cleanup", "done" }

\* the files no run has written yet
NoFiles == [f \in { } |-> << >>]

Saved == savedPath # NoPath

\* C16: after saveTranscription(transcription, outputPath) the file at
\* outputPath holds exactly the text of the transcription and the path
\* returned is outputPath, whatever the path and the transcription.
C16_DestinationHoldsText ==
    Saved =>
        /\ savedPath = outputPath
        /\ outputPath \in DOMAIN disk
        /\ disk[outputPath] = [text |-> transcription.text]

\* the destination with its extension replaced by json
JsonSibling(out) == [out EXCEPT !.ext = "json"]

\* C17: when the transcription saved holds more than one segment result, the
\* transcription is also written as JSON to the destination with its
\* extension replaced, a path other than the destination, beside the text
\* file.
C17_JsonSiblingIsDistinct ==
    (Saved /\ "chunks" \in DOMAIN transcription
           /\ Len(transcription.chunks) > 1) =>
        /\ JsonSibling(outputPath) # outputPath
        /\ JsonSibling(outputPath) \in DOMAIN disk
        /\ disk[JsonSibling(outputPath)] = [json |-> transcription]
        /\ outputPath \in DOMAIN disk
        /\ disk[outputPath] = [text |-> transcription.text]

\* C18: the delays of a transcribe call grow: each is longer than the one
\* before it.
C18_BackoffGrows ==
    \A k \in 2 .. Len(callWaits) : callWaits[k] > callWaits[k - 1]

C20_RunsOwnTheirSegments ==
    /\ clobbered = { }
    /\ \A r \in DOMAIN runs :
          \A k \in 1 .. Len(runs[r].sent) : runs[r].sent[k] = r

\* the segments of the run: the chunks of a split input, else the whole file
RunSegments == IF mode = "chunks" THEN Len(audioPaths) ELSE 1

\* every segment is handed to a transcribe call at most once, in index order
SubmittedOnce ==
    /\ \A k \in 1 .. Len(calls) : calls[k] = k - 1
    /\ mode # "none" => Len(calls) <= RunSegments
    /\ mode = "none" => calls = << >>

\* the requests of a call, and of the run, stay within maxRetries each
AttemptsWithinBudget ==
    /\ callAttempts <= maxRetries
    /\ runAttempts <= maxRetries * Len(calls)
    /\ mode # "none" => runAttempts <= maxRetries * RunSegments
    /\ \A s \in requested : s + 1 <= Len(calls)

\* a step of a run in which a call has thrown after its retry loop: no request
\* is sent and no segment is handed to a call
NoAttemptAfterExhaustion ==
    CallExhausted =>
        /\ runAttempts' = runAttempts
        /\ callAttempts' = callAttempts
        /\ calls' = calls
        /\ inFlight' = { }

\* C21: retries happen only inside the transcribe call: the chunk loop hands
\* each segment to a call at most once, a segment gets at most maxRetries
\* requests, the run at most maxRetries times the number of its segments, and
\* once a call has thrown after its retry loop the run sends no request.
C21_RetriesOnlyInsideCall ==
    /\ [](SubmittedOnce /\ AttemptsWithinBudget)
    /\ [][NoAttemptAfterExhaustion]_vars

\* C21 witness: maxRetries = 3 and three chunks; the first chunk's call used
\* all three requests and succeeded, the second failed three times, and the
\* third chunk was never handed to a call
C21_Witness ==
    /\ maxRetries = 3
    /\ error.kind = "TranscribeFailed"
    /\ Len(audioPaths) = 3
    /\ calls = << 0, 1 >>
    /\ runAttempts = 6
    /\ requested = { 0, 1 }

\* an abort was asked for while a segment was being transcribed
AbortRaised == abortRaisedAt # NoAbort

\* C22 as stated: after an abort request raised while segment i is being
\* transcribed no request is sent for segment i + 1 or a later one, and the
\* request in flight for segment i is not withdrawn.
C22_AbortStopsLaterSegments ==
    AbortRaised =>
        /\ \A s \in requested : s <= abortRaisedAt
        /\ \A r \in inFlight : SegOf(r.path) <= abortRaisedAt
        /\ pc = "await" => inFlight # { }

\* C22 as amended: a run is not aborted between segments: nothing is checked
\* before a segment's transcription starts.  After an abort request raised
\* while segment i is being transcribed the request in flight is not
\* withdrawn, the run fails only when a transcribe call throws, the segments
\* after i are handed to their calls in order as without the request, and
\* the run reaches its result only with every segment transcribed.
C22_AbortRequestIsNotChecked ==
    AbortRaised =>
        /\ pc = "await" => inFlight # { }
        /\ pc = "failed" =>
              /\ error.kind \in { "TranscribeFailed", "TypeError",
                                  "AudioFileNotFound" }
              /\ calls[Len(calls)] = CurrentSeg
        /\ \A k \in 1 .. Len(calls) : calls[k] = k - 1
        /\ Len(calls) \in { Len(results), Len(results) + 1 }
        /\ (pc \notin { "chunk", "failed" } /\ Len(results) < Len(audioPaths))
              => Len(calls) = Len(results) + 1
        /\ pc = "save" =>
              /\ Len(results) = Len(audioPaths)
              /\ Len(calls) = Len(audioPaths)
              /\ transcription = Combined(results)

\* C22 witness: the abort was asked for during the first of three segments;
\* all three were transcribed and the combined result returned
C22_Witness ==
    /\ abortRaisedAt = 0
    /\ pc = "save"
    /\ Len(audioPaths) = 3
    /\ calls = << 0, 1, 2 >>
    /\ requested = { 0, 1, 2 }

\* some render of the split has failed
SomeRenderErrored == \E k \in DOMAIN render : render[k] = "errored"

\* every render of the split has ended
AllRendersEnded ==
    render # << >> /\ \A k \in DOMAIN render : render[k] = "ended"

\* C23: the renders of a split are started together and end in any order;
\* resolve is called at most once and only when all numChunks renders have
\* ended, the list handed on holds chunk_0 .. chunk_(n-1) in index order
\* whatever the order of the 'end' events, and once a render has failed the
\* ends of the other renders never resolve the split.
C23_ResolvesOnceInIndexOrder ==
    /\ resolved <= 1
    /\ render # << >> =>
          /\ Len(render) = NumChunks(inputSize)
          /\ completedChunks = Len(endOrder) \/ endOrder = << >>
          /\ completedChunks
                = Cardinality({ k \in DOMAIN render : render[k] = "ended" })
          /\ resolved = 1 <=> AllRendersEnded
          /\ audioPaths # << >> <=> resolved = 1
          /\ resolved = 1 =>
                /\ pc # "rendering"
                /\ Len(audioPaths) = Len(render)
                /\ \A k \in 1 .. Len(audioPaths) :
                      audioPaths[k] = ChunkPath(k - 1)
          /\ SomeRenderErrored =>
                /\ resolved = 0
                /\ audioPaths = << >>
                /\ pc = "failed"
                /\ completedChunks < Len(render)

\* C23 witness: of three renders the third ended first and the second last;
\* the split has resolved with chunk_0, chunk_1, chunk_2
C23_Witness ==
    /\ pc = "dispatch"
    /\ endOrder = << 3, 1, 2 >>
    /\ resolved = 1
    /\ audioPaths = << ChunkPath(0), ChunkPath(1), ChunkPath(2) >>

\* the run has its list of segments: the split has resolved, or the whole
\* file goes to one call
SegmentsKnown == audioPaths # << >> \/ mode = "single"

\* the transcription step of the run is over, with a result or by a throw
AssemblerEnded == pc \in { "save", "cleanup", "done", "failed" }

\* the result of the transcription step covers every segment
CoversAllSegments ==
    IF mode = "chunks"
    THEN /\ Len(transcription.chunks) = Len(audioPaths)
         /\ transcription = Combined(results)
    ELSE transcription = SingleResult(served[1])

\* a call sends at most maxRetries requests, and a run that is over has
\* failed or has a result for every segment
EndsWithResultOrFailure ==
    /\ callAttempts <= maxRetries
    /\ attempt <= maxRetries + 1
    /\ (AssemblerEnded /\ pc # "failed") => CoversAllSegments

\* C24: when every request settles and every delay ends, every run that has
\* its segments terminates: each call returns or throws after at most
\* maxRetries requests, and the transcription step ends with a result that
\* covers every segment or with a failure.
C24_EveryRunTerminates ==
    /\ []EndsWithResultOrFailure
    /\ SegmentsKnown ~> AssemblerEnded

\* C24 witness: three segments, each call succeeded at its third and last
\* request, and the transcription step has its result
C24_Witness ==
    /\ pc = "save"
    /\ maxRetries = 3
    /\ Len(audioPaths) = 3
    /\ runAttempts = 9
    /\ Len(transcription.chunks) = 3

\* processBatch has returned or thrown
BatchOver == batchPc \in { "done", "failed" }

\* the entries of results are those of the listing, in its order
InListingOrder ==
    /\ Len(batchResults) <= Len(audioFiles)
    /\ \A k \in DOMAIN batchResults :
           batchResults[k].input = audioFiles[k].name

\* C25: in batch mode the files are processed in listing order, a failure of
\* one file (validation, transcription or saving) does not stop the batch,
\* and the summary has exactly one entry, success or failed, for every
\* audio file found.
C25_BatchSurvivesFailures ==
    /\ InListingOrder
    /\ (BatchOver /\ audioFiles # << >>) =>
           /\ batchPc = "done"
           /\ Len(batchResults) = Len(audioFiles)
           /\ summary.successful + summary.failed = Len(audioFiles)

\* the properties of a request that are not the prompt or the file
OptionNames == { "language", "temperature", "responseFormat" }

\* every request of the run carried the same options
SameOptionsInEveryRequest == \A a, b \in sentOptions : a = b

\* an option the caller passed is the one every request carried
CallerOptionsSent ==
    \A o \in sentOptions : \A f \in OptionNames :
        callerOptions[f] # Undefined => o[f] = callerOptions[f]

\* C26: across the segments of a run only the prompt varies: every request,
\* of every segment and of every attempt, carries the language, the
\* temperature and the response format the caller passed to the run.
C26_OnlyPromptVaries ==
    /\ SameOptionsInEveryRequest
    /\ CallerOptionsSent

\* C26 witness: a caller's own options, three segments transcribed with at
\* least one retry, and one set of options in all the requests
C26_Witness ==
    /\ pc = "save"
    /\ callerOptions.language = "fr"
    /\ Len(results) = 3
    /\ runAttempts > 3
    /\ sentOptions =
           { [language |-> "fr", temperature |-> "0.7",
              responseFormat |-> "text"] }

====
